---- MODULE Spec2Model ----
(***************************************************************************)
(* Conversion job lifecycle of the UK Drill audio converter:               *)
(* the upload handler, the in-memory job store (MemStorage) and the        *)
(* background runner processAudioFile of server/routes.ts.                 *)
(***************************************************************************)
EXTENDS Integers, Sequences, FiniteSets, TLC

(* ---------------------------- bounds ----------------------------------- *)

\* number of POST /api/upload requests
MaxUploads == 2
\* last value of the clock (only the order of its readings is kept)
MaxTime == 1

(* ------------------------ program constants ---------------------------- *)

\* routes.ts:127
totalSteps == 10
\* routes.ts:24 (50 * 1024 * 1024)
fileSize == 52428800

\* routes.ts:16
allowedTypes == {"audio/mpeg", "audio/wav", "audio/mp4", "audio/m4a"}
\* schema.ts:11
IntensityEnum == {"soft", "medium", "heavy"}
\* schema.ts:12
StatusEnum == {"pending", "processing", "completed", "failed"}

\* null of a text column / of a timestamp column
Null == "null"
NoDate == -1

(* ----------------------------- inputs ---------------------------------- *)

JobIds == 1..MaxUploads
MimeTypes == {"audio/mpeg", "text/plain"}
FileSizes == {2097152, fileSize + 1}
\* "" is an absent or empty form field
IntensityInputs == {"", "loud"}
FileNames == {"track.mp3"}
\* the bytes sent with the n-th request: distinct uploads are told apart
Bytes(n) == "bytes" \o ToString(n)

(* --------------------------- state ------------------------------------- *)

VARIABLES
    conversions,  \* MemStorage.conversions: the Map, as its entries in insertion order
    disk,         \* the files under uploads/: path -> content
    requests,     \* number of POST /api/upload requests received so far
    now,          \* the latest value new Date() returned
    runner,       \* per job id: the position of its processAudioFile call
    accepted,     \* the bodies of the 200 responses of POST /api/upload, in order
    reply,        \* status code of the last response of POST /api/upload
    request,      \* the form of the request that reply answers
    response,     \* the response of the GET request handled in the last step, if any
    selectedFile,       \* Home: the File chosen in the drop zone, or null
    currentConversion,  \* Home: its copy of the tracked job, or null
    uploadMutation,     \* Home: the upload mutation, with its variables while pending
    fetching,           \* the ids whose query ['/api/conversions', id] has a fetch in flight
    queryData           \* per id: the data of the query ['/api/conversions', id]

\* the state of the page in the browser
client == <<selectedFile, currentConversion, uploadMutation, fetching, queryData>>

vars == <<conversions, disk, requests, now, runner, accepted, reply, request, response,
          selectedFile, currentConversion, uploadMutation, fetching, queryData>>

(* ------------------------- MemStorage ---------------------------------- *)

Keys(m) == {m[i].id : i \in 1..Len(m)}

\* Map.get: the entry under the key, or undefined
Undefined == [id |-> 0]
MapGet(m, id) ==
    IF id \in Keys(m)
    THEN m[CHOOSE i \in 1..Len(m) : m[i].id = id]
    ELSE Undefined

\* Map.set: a new key is appended, an existing key keeps its position
MapSet(m, id, rec) ==
    IF id \in Keys(m)
    THEN [i \in 1..Len(m) |-> IF m[i].id = id THEN rec ELSE m[i]]
    ELSE Append(m, rec)

\* the multipart form of a request: its file part, if any, and its intensity field
Form(hasFile, mimetype, size, intensity) ==
    IF hasFile
    THEN [hasFile |-> TRUE, mimetype |-> mimetype, size |-> size, intensity |-> intensity]
    ELSE [hasFile |-> FALSE, mimetype |-> "", size |-> 0, intensity |-> intensity]

\* (mutant) the generator returns the same id again
randomUUIDFixed(used) == {1}

\* crypto.randomUUID(): the ids it can return given the ids in use
\* (ids are opaque: the k-th id generated is called k)
randomUUID(used) == {id \in JobIds : id \notin used /\ \A k \in JobIds : k < id => k \in used}

\* (mutant) the record is stamped completed when it is built
NewConversionStamped(insertConversion, id, date) ==
    [id                |-> id,
     originalFilename  |-> insertConversion.originalFilename,
     originalFilePath  |-> insertConversion.originalFilePath,
     intensity         |-> insertConversion.intensity,
     metadata          |-> insertConversion.metadata,
     createdAt         |-> date,
     completedAt       |-> date,
     progress          |-> insertConversion.progress,
     status            |-> insertConversion.status,
     convertedFilePath |-> Null]

\* the record createConversion builds (routes.ts:204-213)
NewConversion(insertConversion, id, date) ==
    [id                |-> id,
     originalFilename  |-> insertConversion.originalFilename,
     originalFilePath  |-> insertConversion.originalFilePath,
     intensity         |-> insertConversion.intensity,
     metadata          |-> insertConversion.metadata,
     createdAt         |-> date,
     completedAt       |-> NoDate,
     progress          |-> insertConversion.progress,
     status            |-> insertConversion.status,
     convertedFilePath |-> Null]

createConversion(m, insertConversion, id, date) ==
    MapSet(m, id, NewConversion(insertConversion, id, date))

getConversion(m, id) == MapGet(m, id)

\* (mutant) { ...updates, ...existing }: the fields of existing override
MergeExistingWins(existing, updates) ==
    [f \in DOMAIN existing |-> existing[f]]

\* { ...existing, ...updates }: the fields of updates override
Merge(existing, updates) ==
    [f \in DOMAIN existing |->
        IF f \in DOMAIN updates THEN updates[f] ELSE existing[f]]

\* (mutant) the update is applied without selecting the record by its key
updateConversionAll(m, id, updates) ==
    IF id \in Keys(m)
    THEN [i \in 1..Len(m) |-> Merge(m[i], updates)]
    ELSE m

\* (mutant) an absent id is stored with the updates as its record
updateConversionUpsert(m, id, updates) ==
    IF id \in Keys(m)
    THEN MapSet(m, id, Merge(MapGet(m, id), updates))
    ELSE MapSet(m, id, [id |-> id] @@ updates)

\* routes.ts:222-229: the stored Map after the call
updateConversion(m, id, updates) ==
    IF id \in Keys(m)
    THEN MapSet(m, id, Merge(MapGet(m, id), updates))
    ELSE m

\* (mutant) the comparator orders oldest first
compareAscending(a, b) == a.createdAt - b.createdAt

\* the comparator of getAllConversions (routes.ts:233)
compare(a, b) == b.createdAt - a.createdAt

\* (mutant) an element that compares equal to one already placed is dropped
InsertUnique(sorted, x) ==
    LET before == {i \in 1..Len(sorted) : compare(sorted[i], x) <= 0}
    IN  IF \E i \in before : compare(sorted[i], x) = 0
        THEN sorted
        ELSE SubSeq(sorted, 1, Cardinality(before)) \o <<x>>
                \o SubSeq(sorted, Cardinality(before) + 1, Len(sorted))

\* Array.prototype.sort is stable: x, which came after the elements of
\* sorted, goes behind every element that does not compare greater than it
Insert(sorted, x) ==
    LET before == {i \in 1..Len(sorted) : compare(sorted[i], x) <= 0}
    IN  SubSeq(sorted, 1, Cardinality(before)) \o <<x>>
            \o SubSeq(sorted, Cardinality(before) + 1, Len(sorted))

RECURSIVE sort(_)
sort(values) ==
    IF values = <<>>
    THEN <<>>
    ELSE Insert(sort(SubSeq(values, 1, Len(values) - 1)), values[Len(values)])

\* Array.from(this.conversions.values()).sort(...)
getAllConversions(m) == sort(m)

\* what updateConversion returns: undefined for an absent id (routes.ts:224),
\* else the merged object it has just stored (routes.ts:226-228)
updateConversionResult(m, id, updates) ==
    IF id \in Keys(m)
    THEN Merge(MapGet(m, id), updates)
    ELSE Undefined

(* --------------------------- file system ------------------------------- *)

existsSync(d, p) == p \in DOMAIN d

WriteFile(d, p, content) ==
    [q \in DOMAIN d \cup {p} |-> IF q = p THEN content ELSE d[q]]

copyFileSync(d, from, to) == WriteFile(d, to, d[from])

\* the name multer gives the file of the n-th request, under dest "uploads/"
UploadPath(n) == "uploads/" \o ToString(n)

\* (mutant) the output name leaves out the job id
OutputPathShared(conversionId) == "uploads/converted_.mp3"

\* routes.ts:136
OutputPath(conversionId) == "uploads/converted_" \o ToString(conversionId) \o ".mp3"

(* ------------------------------ clock ---------------------------------- *)

\* new Date(): the time of the previous reading, or a later one
Date == {t \in now..(now + 1) : t <= MaxTime}

(* ----------------------------- runner ---------------------------------- *)

\* no request has been answered yet
NoRequest == [hasFile |-> FALSE, mimetype |-> "", size |-> 0, intensity |-> ""]

\* the last step handled no GET request
NoResponse == [kind |-> "none"]

Idle == [pc |-> "idle", step |-> 0, conversion |-> Undefined, starts |-> 0,
         thrown |-> FALSE, copy |-> "none"]

\* no File is selected
NoFile == [name |-> "", type |-> "", size |-> 0]

\* the mutation has no request in flight
NoMutation == [isPending |-> FALSE]

Init ==
    /\ selectedFile = NoFile
    /\ currentConversion = Undefined
    /\ uploadMutation = NoMutation
    /\ fetching = {}
    /\ queryData = [id \in JobIds |-> Undefined]
    /\ conversions = <<>>
    /\ disk = <<>>
    /\ requests = 0
    /\ now = 0
    /\ runner = [j \in JobIds |-> Idle]
    /\ accepted = <<>>
    /\ reply = 0
    /\ request = NoRequest
    /\ response = NoResponse

\* Math.round of the rational num/den (num, den > 0): halves round up
MathRound(num, den) == (2 * num + den) \div (2 * den)

\* (mutant) the loop counter is taken from 0
ProgressOffByOne(step) == MathRound((step - 1) * 100, totalSteps)

\* (mutant) the ratio is not taken
ProgressUnscaled(step) == step * 100

\* routes.ts:132
Progress(step) == MathRound(step * 100, totalSteps)

\* (mutant) the catch block leaves the progress as it is
CatchKeepsProgress(m, conversionId) ==
    updateConversion(m, conversionId, [status |-> "failed"])

\* (mutant) the catch block puts the job back to pending
CatchResets(m, conversionId) ==
    updateConversion(m, conversionId, [status |-> "pending", progress |-> 0])

\* the catch block of processAudioFile
Catch(m, conversionId) ==
    updateConversion(m, conversionId, [status |-> "failed", progress |-> 0])

\* (mutant) the write of a step also blanks the file name
StepUpdateBlanksName(m, conversionId, progress) ==
    updateConversion(m, conversionId,
        [status |-> "processing", progress |-> progress, originalFilename |-> ""])

\* the write of a step before the last
StepUpdate(m, conversionId, progress) ==
    updateConversion(m, conversionId, [status |-> "processing", progress |-> progress])

\* (mutant) the last write leaves out the output path
FinalUpdateNoPath(m, conversionId, progress, outputPath, date) ==
    updateConversion(m, conversionId,
        [status |-> "completed", progress |-> progress, completedAt |-> date])

\* the write of the last step
FinalUpdate(m, conversionId, progress, outputPath, date) ==
    updateConversion(m, conversionId,
        [status |-> "completed", progress |-> progress,
         convertedFilePath |-> outputPath, completedAt |-> date])

\* (mutant) the runner looks the job up before it is stored
StartRunnerMissing(r, m, conversionId) ==
    [r EXCEPT ![conversionId] =
        [Idle EXCEPT !.pc = "start",
                     !.conversion = Undefined,
                     !.starts = r[conversionId].starts + 1]]

\* (mutant) the handler does not start the runner
StartRunnerNever(r, m, conversionId) == r

\* processAudioFile(conversionId) up to its first await: the call of
\* storage.getConversion has read the Map
StartRunner(r, m, conversionId) ==
    [r EXCEPT ![conversionId] =
        [Idle EXCEPT !.pc = "start",
                     !.conversion = getConversion(m, conversionId),
                     !.starts = r[conversionId].starts + 1]]

\* a step that handles no GET request and that the page takes no part in
Quiet == response' = NoResponse /\ UNCHANGED client

(* ------------------------- POST /api/upload ---------------------------- *)

\* the file multer hands to the route handler
ReqFile(originalname, mimetype, size, path) ==
    [originalname |-> originalname, mimetype |-> mimetype, size |-> size, path |-> path]

\* the object given to insertConversionSchema.safeParse (routes.ts:43-53)
InsertConversion(file, intensity) ==
    [originalFilename |-> file.originalname,
     originalFilePath |-> file.path,
     intensity        |-> IF intensity = "" THEN "medium" ELSE intensity,
     status           |-> "pending",
     progress         |-> 0,
     metadata         |-> [fileSize |-> file.size, mimeType |-> file.mimetype]]

\* (mutant) the parsed fields are not checked against the schema
safeParseUnchecked(insertConversion) == TRUE

safeParse(insertConversion) ==
    /\ insertConversion.intensity \in IntensityEnum
    /\ insertConversion.status \in StatusEnum

\* multer refuses the request: the error goes to the framework's error path
RefuseUpload(hasFile, mimetype, size, intensity) ==
    /\ hasFile
    /\ mimetype \notin allowedTypes \/ size > fileSize
    /\ requests < MaxUploads
    /\ requests' = requests + 1
    /\ request' = Form(hasFile, mimetype, size, intensity)
    /\ reply' = 500
    /\ response' = NoResponse
    /\ UNCHANGED <<conversions, disk, now, runner, accepted>>

\* such a request, sent by another client than the page
UploadRefused(hasFile, mimetype, size, intensity) ==
    RefuseUpload(hasFile, mimetype, size, intensity) /\ UNCHANGED client

\* no file part in the form
UploadNoFile(hasFile, mimetype, size, intensity) ==
    /\ ~hasFile
    /\ requests < MaxUploads
    /\ requests' = requests + 1
    /\ request' = Form(hasFile, mimetype, size, intensity)
    /\ reply' = 400
    /\ UNCHANGED <<conversions, disk, now, runner, accepted>>
    /\ Quiet

\* the file is stored, the fields do not validate
UploadInvalid(hasFile, originalname, mimetype, size, intensity) ==
    /\ hasFile /\ mimetype \in allowedTypes /\ size <= fileSize
    /\ requests < MaxUploads
    /\ LET file == ReqFile(originalname, mimetype, size, UploadPath(requests + 1))
       IN  /\ ~safeParse(InsertConversion(file, intensity))
           /\ disk' = WriteFile(disk, file.path, Bytes(requests + 1))
    /\ requests' = requests + 1
    /\ request' = Form(hasFile, mimetype, size, intensity)
    /\ reply' = 400
    /\ UNCHANGED <<conversions, now, runner, accepted>>
    /\ Quiet

\* the file is stored, the job is created, the runner started, the job returned
AcceptUpload(hasFile, originalname, mimetype, size, intensity) ==
    /\ hasFile /\ mimetype \in allowedTypes /\ size <= fileSize
    /\ requests < MaxUploads
    /\ LET file == ReqFile(originalname, mimetype, size, UploadPath(requests + 1))
           data == InsertConversion(file, intensity)
       IN  /\ safeParse(data)
           /\ disk' = WriteFile(disk, file.path, Bytes(requests + 1))
           /\ \E id \in randomUUID(Keys(conversions)), date \in Date :
                /\ conversions' = createConversion(conversions, data, id, date)
                /\ now' = date
                /\ runner' = StartRunner(runner, conversions', id)
                /\ accepted' = Append(accepted, getConversion(conversions', id))
    /\ requests' = requests + 1
    /\ request' = Form(hasFile, mimetype, size, intensity)
    /\ reply' = 200
    /\ response' = NoResponse

\* such a request, sent by another client than the page
UploadAccepted(hasFile, originalname, mimetype, size, intensity) ==
    AcceptUpload(hasFile, originalname, mimetype, size, intensity) /\ UNCHANGED client

\* one request: the form has a file part or not, and the fields it carries
Upload ==
    \E hasFile \in BOOLEAN, mimetype \in MimeTypes, size \in FileSizes,
       intensity \in IntensityInputs, originalname \in FileNames :
        \/ UploadNoFile(hasFile, mimetype, size, intensity)
        \/ UploadRefused(hasFile, mimetype, size, intensity)
        \/ UploadInvalid(hasFile, originalname, mimetype, size, intensity)
        \/ UploadAccepted(hasFile, originalname, mimetype, size, intensity)

(* ------------------------ processAudioFile ----------------------------- *)

\* (mutant) the catch block writes to the job stored first
RunnerCatchFirst(j) ==
    /\ conversions' = Catch(conversions, conversions[1].id)
    /\ runner' = [runner EXCEPT ![j].pc = "done", ![j].step = 0, ![j].thrown = TRUE]

\* an exception reaches the catch block: the job is written failed, the call ends
RunnerCatch(j) ==
    /\ conversions' = Catch(conversions, j)
    /\ runner' = [runner EXCEPT ![j].pc = "done", ![j].step = 0, ![j].thrown = TRUE]

\* (mutant) the continuation goes on without looking at what the Map returned
RunnerBeginUnchecked(j, throws) ==
    /\ runner[j].pc = "start"
    /\ IF throws
       THEN RunnerCatch(j)
       ELSE /\ runner' = [runner EXCEPT ![j].pc = "sleep", ![j].step = 1]
            /\ UNCHANGED conversions
    /\ UNCHANGED <<disk, requests, now, accepted, reply, request>>
    /\ Quiet

\* the continuation of "await storage.getConversion(conversionId)"
RunnerBegin(j, throws) ==
    /\ runner[j].pc = "start"
    /\ IF throws
       THEN RunnerCatch(j)
       ELSE /\ runner' = [runner EXCEPT
                    ![j].pc = IF runner[j].conversion = Undefined THEN "done" ELSE "sleep",
                    ![j].step = IF runner[j].conversion = Undefined THEN 0 ELSE 1]
            /\ UNCHANGED conversions
    /\ UNCHANGED <<disk, requests, now, accepted, reply, request>>
    /\ Quiet

\* (mutant) the loop counter advances by two
RunnerStepSkips(j, throws) ==
    /\ runner[j].pc = "sleep"
    /\ runner[j].step < totalSteps
    /\ IF throws
       THEN RunnerCatch(j)
       ELSE /\ conversions' = StepUpdate(conversions, j, Progress(runner[j].step))
            /\ runner' = [runner EXCEPT
                    ![j].step = IF @ + 2 > totalSteps THEN totalSteps ELSE @ + 2]
    /\ UNCHANGED <<disk, requests, now, accepted, reply, request>>
    /\ Quiet

\* the timer of a step before the last fires: the progress is written
RunnerStep(j, throws) ==
    /\ runner[j].pc = "sleep"
    /\ runner[j].step < totalSteps
    /\ IF throws
       THEN RunnerCatch(j)
       ELSE /\ conversions' = StepUpdate(conversions, j, Progress(runner[j].step))
            /\ runner' = [runner EXCEPT ![j].step = @ + 1]
    /\ UNCHANGED <<disk, requests, now, accepted, reply, request>>
    /\ Quiet

\* the timer of the last step fires: the source is copied to the output path
\* (a missing source or a failing copy is logged only), the job is written completed
RunnerLastStep(j, copyThrows, throws) ==
    /\ runner[j].pc = "sleep"
    /\ runner[j].step = totalSteps
    /\ LET outputPath == OutputPath(j)
           source == runner[j].conversion.originalFilePath
           present == existsSync(disk, source)
           copied == present /\ ~copyThrows
       IN  /\ disk' = IF copied THEN copyFileSync(disk, source, outputPath) ELSE disk
           /\ \E date \in Date :
                /\ now' = date
                /\ conversions' =
                     IF throws
                     THEN Catch(conversions, j)
                     ELSE FinalUpdate(conversions, j, Progress(runner[j].step),
                                      outputPath, date)
           /\ runner' = [runner EXCEPT
                ![j].pc = "done", ![j].step = 0, ![j].thrown = throws,
                ![j].copy = IF copied THEN "copied"
                            ELSE IF present THEN "error" ELSE "missing"]
    /\ UNCHANGED <<requests, accepted, reply, request>>
    /\ Quiet

(* --------------------------- environment ------------------------------- *)

\* the uploaded file a running job is going to copy is removed from outside
\* the program (once the run is over nothing reads the file any more)
DeleteFile(p) ==
    /\ p \in DOMAIN disk
    /\ \E j \in JobIds : /\ runner[j].pc \in {"start", "sleep"}
                         /\ runner[j].conversion # Undefined
                         /\ runner[j].conversion.originalFilePath = p
    /\ disk' = [q \in DOMAIN disk \ {p} |-> disk[q]]
    /\ UNCHANGED <<conversions, requests, now, runner, accepted, reply, request>>
    /\ Quiet

\* the next resumption of the processAudioFile call of job j; throws says
\* whether an exception is raised in the try block at this resumption (it
\* reaches the catch block), copyThrows whether fs.copyFileSync raises (the
\* inner try/catch logs it)
Runner(j) ==
    \/ \E throws \in BOOLEAN : RunnerBegin(j, throws)
    \/ \E throws \in BOOLEAN : RunnerStep(j, throws)
    \/ \E copyThrows \in BOOLEAN, throws \in BOOLEAN : RunnerLastStep(j, copyThrows, throws)

(* --------------------------- GET handlers ------------------------------ *)

\* path.parse(originalFilename).name, for the names uploaded here
ParsedName(originalFilename) ==
    CASE originalFilename = "track.mp3" -> "track"
      [] OTHER -> originalFilename

\* (mutant) a job without converted file is served its uploaded file
DownloadResponseFallback(conversion, d) ==
    IF conversion = Undefined
    THEN [kind |-> "download", status |-> 404, message |-> "File not found"]
    ELSE LET file == IF conversion.convertedFilePath = Null
                     THEN conversion.originalFilePath
                     ELSE conversion.convertedFilePath
         IN  IF ~existsSync(d, file)
             THEN [kind |-> "download", status |-> 404, message |-> "File not found on disk"]
             ELSE [kind |-> "download", status |-> 200, body |-> d[file],
                   filename |-> ParsedName(conversion.originalFilename) \o "_drill_"
                                    \o conversion.intensity \o ".mp3"]

\* the response of GET /api/download/:id (routes.ts:99-109)
DownloadResponse(conversion, d) ==
    IF conversion = Undefined \/ conversion.convertedFilePath = Null
    THEN [kind |-> "download", status |-> 404, message |-> "File not found"]
    ELSE IF ~existsSync(d, conversion.convertedFilePath)
    THEN [kind |-> "download", status |-> 404, message |-> "File not found on disk"]
    ELSE [kind |-> "download", status |-> 200, body |-> d[conversion.convertedFilePath],
          filename |-> ParsedName(conversion.originalFilename) \o "_drill_"
                            \o conversion.intensity \o ".mp3"]

\* the response of GET /api/conversions/:id (routes.ts:74-78)
ConversionResponse(conversion) ==
    IF conversion = Undefined
    THEN [kind |-> "conversion", status |-> 404, message |-> "Conversion not found"]
    ELSE [kind |-> "conversion", status |-> 200, body |-> conversion]

\* the store, the files and the upload bookkeeping stay as they are
ReadOnly == UNCHANGED <<conversions, disk, requests, now, runner, accepted, reply, request>>

\* a GET request of another client than the page
Get(res) == response' = res /\ ReadOnly /\ UNCHANGED client

\* GET /api/conversions/:id
GetConversion(id) ==
    Get(ConversionResponse(getConversion(conversions, id)) @@ [id |-> id])

\* GET /api/conversions
GetConversions ==
    Get([kind |-> "list", status |-> 200, body |-> getAllConversions(conversions)])

\* GET /api/download/:id
Download(id) ==
    Get(DownloadResponse(getConversion(conversions, id), disk) @@ [id |-> id])

(* ------------------------------ the page ------------------------------- *)

\* the types the drop zone accepts (FileUpload.tsx:35-40)
accept == {"audio/mpeg", "audio/wav", "audio/mp4", "audio/m4a"}

\* the levels of the intensity selector the user picks from here
Intensities == {"medium", "heavy"}

\* the files the user drops
Files == {[name |-> n, type |-> t, size |-> z] :
            n \in FileNames, t \in MimeTypes \cap accept, z \in FileSizes}

Active == {"pending", "processing"}

\* (mutant) the query is enabled whenever a job is tracked
enabledWhileTracked(conversion) == conversion # Undefined

\* (mutant) the query is enabled only once the job is processing
enabledWhileProcessing(conversion) ==
    conversion # Undefined /\ conversion.status = "processing"

\* home.tsx:29, the enabled option of the polling query
enabled(conversion) ==
    conversion # Undefined /\ conversion.status \in Active

\* (mutant) the key stays that of the first job
queryKeyFixed(conversion) == 1

\* home.tsx:28, the id in the query key: currentConversion?.id
queryKey(conversion) == conversion.id

\* home.tsx:27-31, the data of the query under the key of the tracked job
conversionStatus(data, conversion) ==
    IF conversion = Undefined THEN Undefined ELSE data[queryKey(conversion)]

\* (mutant) the fetched record is taken whatever its id
RenderAnyId(conversion, status) ==
    IF /\ status # Undefined
       /\ conversion # Undefined
       /\ status.status # conversion.status \/ status.progress # conversion.progress
    THEN status
    ELSE conversion

\* home.tsx:34-42, run at every render: the value of currentConversion after it
Render(conversion, status) ==
    IF /\ status # Undefined
       /\ conversion # Undefined
       /\ status.id = conversion.id
       /\ status.status # conversion.status \/ status.progress # conversion.progress
    THEN status
    ELSE conversion

\* (mutant) only a pending upload counts as converting
isConvertingUploadOnly == uploadMutation.isPending

\* home.tsx:94-95
isConverting ==
    uploadMutation.isPending \/ (currentConversion # Undefined /\ currentConversion.status \in Active)

\* the server state is as it was and no GET of another client is answered
ServerIdle == ReadOnly /\ response' = NoResponse

\* home.tsx:71-74; the drop zone is shown while no file is selected and
\* takes no file while disabled (FileUpload.tsx:43, 53)
handleFileSelect(file) ==
    /\ selectedFile = NoFile
    /\ ~isConverting
    /\ selectedFile' = file
    /\ currentConversion' = Render(Undefined, conversionStatus(queryData, Undefined))
    /\ UNCHANGED <<uploadMutation, fetching, queryData>>
    /\ ServerIdle

\* home.tsx:76-79; the clear button is shown with the selected file and is
\* disabled with the drop zone (FileUpload.tsx:74-75)
handleClearFile ==
    /\ selectedFile # NoFile
    /\ ~isConverting
    /\ selectedFile' = NoFile
    /\ currentConversion' = Render(Undefined, conversionStatus(queryData, Undefined))
    /\ UNCHANGED <<uploadMutation, fetching, queryData>>
    /\ ServerIdle

\* home.tsx:81-85 behind the convert button (FileUpload.tsx:392-396, 457):
\* uploadMutation.mutate sends POST /api/upload
handleConvert(intensity) ==
    /\ selectedFile # NoFile
    /\ ~isConverting
    /\ requests < MaxUploads
    /\ uploadMutation' = [isPending |-> TRUE, file |-> selectedFile, intensity |-> intensity]
    /\ UNCHANGED <<selectedFile, currentConversion, fetching, queryData>>
    /\ ServerIdle

\* the page's upload is answered 200: onSuccess (home.tsx:53-60) tracks the
\* returned job; invalidateQueries refetches no query, the observer being
\* disabled until the next render
UploadSucceeds ==
    /\ uploadMutation.isPending
    /\ AcceptUpload(TRUE, uploadMutation.file.name, uploadMutation.file.type,
                    uploadMutation.file.size, uploadMutation.intensity)
    /\ uploadMutation' = NoMutation
    /\ LET conversion == accepted'[Len(accepted')]
       IN  currentConversion' = Render(conversion, conversionStatus(queryData, conversion))
    /\ UNCHANGED <<selectedFile, fetching, queryData>>

\* the page's upload is answered with an error: onError (home.tsx:61-68)
UploadFails ==
    /\ uploadMutation.isPending
    /\ RefuseUpload(TRUE, uploadMutation.file.type, uploadMutation.file.size,
                    uploadMutation.intensity)
    /\ uploadMutation' = NoMutation
    /\ UNCHANGED <<selectedFile, currentConversion, fetching, queryData>>

\* the polling query starts a fetch: on becoming enabled and then every
\* refetchInterval, one fetch at a time (home.tsx:27-31)
Refetch ==
    /\ enabled(currentConversion)
    /\ queryKey(currentConversion) \notin fetching
    /\ fetching' = fetching \cup {queryKey(currentConversion)}
    /\ UNCHANGED <<selectedFile, currentConversion, uploadMutation, queryData>>
    /\ ServerIdle

\* what the query function makes of the answer: the record, or no new data
queryFn(res, data) == IF res.status = 200 THEN res.body ELSE data

\* GET /api/conversions/:id for a fetch in flight is answered; the page
\* stores the data and renders
Fetched(id) ==
    /\ id \in fetching
    /\ fetching' = fetching \ {id}
    /\ LET res == ConversionResponse(getConversion(conversions, id))
       IN  /\ queryData' = [queryData EXCEPT ![id] = queryFn(res, queryData[id])]
           /\ response' = res @@ [id |-> id]
    /\ currentConversion' =
          Render(currentConversion, conversionStatus(queryData', currentConversion))
    /\ UNCHANGED <<selectedFile, uploadMutation>>
    /\ ReadOnly

\* the page and the server it talks to
ClientNext ==
    \/ \E file \in Files : handleFileSelect(file)
    \/ handleClearFile
    \/ \E intensity \in Intensities : handleConvert(intensity)
    \/ UploadSucceeds
    \/ UploadFails
    \/ Refetch
    \/ \E id \in JobIds : Fetched(id)
    \/ \E j \in JobIds : Runner(j)
    \/ \E p \in DOMAIN disk : DeleteFile(p)

ClientSpec == Init /\ [][ClientNext]_vars

\* the runners' timers fire, the refetch interval fires and every fetch is answered
FairClientSpec ==
    /\ ClientSpec
    /\ \A j \in JobIds : WF_vars(Runner(j))
    /\ WF_vars(Refetch)
    /\ \A id \in JobIds : WF_vars(Fetched(id))

(* ---------------------------- the server ------------------------------- *)

Next ==
    \/ Upload
    \/ \E j \in JobIds : Runner(j)
    \/ \E p \in DOMAIN disk : DeleteFile(p)

Spec == Init /\ [][Next]_vars

\* the server with its GET handlers
ServerNext ==
    \/ Next
    \/ \E id \in JobIds : GetConversion(id)
    \/ GetConversions
    \/ \E id \in JobIds : Download(id)

ServerSpec == Init /\ [][ServerNext]_vars

\* the writers of the store alone: the uploads that create a job and the runners
StoreNext ==
    \/ \E originalname \in FileNames, mimetype \in MimeTypes, size \in FileSizes,
          intensity \in IntensityInputs :
            UploadAccepted(TRUE, originalname, mimetype, size, intensity)
    \/ \E j \in JobIds : Runner(j)

StoreSpec == Init /\ [][StoreNext]_vars

\* processAudioFile is called for an id no record is stored under (the route
\* itself calls it for the record it has just stored, routes.ts:59-62)
CallWithoutRecord(id) ==
    /\ id \notin Keys(conversions)
    /\ runner[id].pc = "idle"
    /\ runner' = StartRunner(runner, conversions, id)
    /\ UNCHANGED <<conversions, disk, requests, now, accepted, reply, request>>
    /\ Quiet

\* the writers of the store, and processAudioFile called on its own
RunnerNext ==
    \/ StoreNext
    \/ \E id \in JobIds : CallWithoutRecord(id)

RunnerSpec == Init /\ [][RunnerNext]_vars

\* the event loop resumes every pending continuation and fires every timer
FairSpec == Spec /\ \A j \in JobIds : WF_vars(Runner(j))

(* ============================ properties =============================== *)

Jobs == Keys(conversions)
Job(j) == MapGet(conversions, j)
Terminal == {"completed", "failed"}
Finished(j) == j \in Jobs /\ runner[j].pc = "done"

\* C1 (as stated): a job is failed only after a processing fault, and every
\* processing fault - an exception in the run, or the source file missing at
\* the copy of the last step - leaves the job failed with progress 0.
C1_AsStated ==
    \A j \in Jobs :
        LET fault == runner[j].thrown \/ runner[j].copy = "missing"
        IN  /\ Job(j).status = "failed" => fault
            /\ (Finished(j) /\ fault) => (Job(j).status = "failed" /\ Job(j).progress = 0)

\* C1 (amended): a job is failed exactly when an exception reached the catch
\* block of its run, and then its progress is 0 and the run is over; a source
\* file missing at the copy of the last step, or a copy that fails, is no such
\* fault: a run that ends without an exception leaves the job completed.
C1_FailedIffThrown ==
    \A j \in Jobs :
        /\ Job(j).status = "failed" <=> runner[j].thrown
        /\ runner[j].thrown => (Job(j).progress = 0 /\ runner[j].pc = "done")
        /\ (Finished(j) /\ ~runner[j].thrown) => Job(j).status = "completed"

C1_Witness ==
    /\ \E j \in Jobs : runner[j].thrown /\ Job(j).status = "failed"
    /\ \E j \in Jobs : Finished(j) /\ ~runner[j].thrown /\ runner[j].copy = "missing"

\* C2: a job whose source file is absent at the copy of the last step (its
\* run raising no exception) ends completed, with progress 100 and
\* convertedFilePath uploads/converted_<id>.mp3, and no file is at that path.
C2_MissingSourceCompletes ==
    \A j \in Jobs :
        (Finished(j) /\ runner[j].copy = "missing" /\ ~runner[j].thrown) =>
            /\ Job(j).status = "completed"
            /\ Job(j).progress = 100
            /\ Job(j).convertedFilePath = "uploads/converted_" \o ToString(j) \o ".mp3"
            /\ ~existsSync(disk, Job(j).convertedFilePath)

C2_Witness ==
    \E j \in Jobs : Finished(j) /\ runner[j].copy = "missing" /\ ~runner[j].thrown

\* C3: for every stored job, convertedFilePath is non-null if and only if
\* status is completed.
C3_PathIffCompleted ==
    \A j \in Jobs : Job(j).convertedFilePath # Null <=> Job(j).status = "completed"

C3_Witness ==
    /\ \E j \in Jobs : Job(j).status = "completed" /\ Job(j).convertedFilePath # Null
    /\ \E j \in Jobs : Job(j).status = "failed" /\ Job(j).convertedFilePath = Null

\* C4: a job whose runner went through all totalSteps steps with the copy
\* done and no exception is completed, with progress 100, convertedFilePath
\* and completedAt set.
C4_FullRunCompletes ==
    \A j \in Jobs :
        (Finished(j) /\ runner[j].copy = "copied" /\ ~runner[j].thrown) =>
            /\ Job(j).status = "completed"
            /\ Job(j).progress = 100
            /\ Job(j).convertedFilePath # Null
            /\ Job(j).completedAt # NoDate

C4_Witness ==
    \E j \in Jobs : Finished(j) /\ runner[j].copy = "copied" /\ ~runner[j].thrown

\* C5: under fair scheduling of the runner, every created job eventually has
\* a terminal status.
C5_EventuallyTerminal ==
    \A j \in JobIds : (j \in Jobs) ~> (j \in Jobs /\ Job(j).status \in Terminal)

C5_Witness ==
    \A j \in JobIds : j \in Jobs /\ Job(j).status \in Terminal

\* C6: progress is 0 at creation, stays within 0..100, and no store write
\* lowers it, except the write that sets status failed, which sets it to 0.
C6_ProgressMonotone ==
    [][\A j \in JobIds :
        LET old == MapGet(conversions, j)
            new == MapGet(conversions', j)
        IN  /\ (j \notin Jobs /\ j \in Keys(conversions')) => new.progress = 0
            /\ j \in Keys(conversions') => new.progress \in 0..100
            /\ j \in Jobs =>
                  \/ new.progress >= old.progress
                  \/ old.status \notin Terminal /\ new.status = "failed" /\ new.progress = 0
      ]_vars

C6_Witness ==
    /\ \E j \in Jobs : Job(j).status = "processing" /\ Job(j).progress = 90
    /\ \E j \in Jobs : Job(j).status = "failed" /\ Job(j).progress = 0

\* C7: a store write leaves the status of a job as it is or moves it along
\* pending -> processing -> (completed | failed); no job goes back to
\* pending, and none goes from completed or failed to processing.
C7_StatusForward ==
    [][\A j \in Jobs :
        LET old == MapGet(conversions, j).status
            new == MapGet(conversions', j).status
        IN  \/ new = old
            \/ old = "pending" /\ new \in {"processing", "failed"}
            \/ old = "processing" /\ new \in Terminal
      ]_vars

C7_Witness ==
    /\ \E j \in Jobs : Job(j).status = "completed"
    /\ \E j \in Jobs : Job(j).status = "failed"

\* C8: once the status of a job is completed or failed, its stored record
\* never changes again.
C8_TerminalFrozen ==
    [][\A j \in Jobs :
        Job(j).status \in Terminal => MapGet(conversions', j) = Job(j)
      ]_vars

C8_Witness ==
    /\ \E j \in Jobs : Job(j).status \in Terminal
    /\ \E j \in Jobs : Job(j).status = "processing" /\ runner[j].pc = "sleep"

\* C9: every job returned by an accepted upload has status pending and
\* progress 0, although its runner has been started, and its id differs from
\* the id of every job returned before.
C9_ResponsePendingFreshId ==
    \A i \in 1..Len(accepted) :
        /\ accepted[i].status = "pending"
        /\ accepted[i].progress = 0
        /\ runner[accepted[i].id].starts >= 1
        /\ \A k \in 1..(i - 1) : accepted[k].id # accepted[i].id

C9_Witness ==
    /\ Len(accepted) >= 2
    /\ \E j \in Jobs : Job(j).status \in Terminal

\* C10: the runner of a job is started once, in the step that creates the
\* job and before any other write to it; the upload response is sent while
\* the job is not terminal and the runner not finished, and no later step
\* changes a response already sent.
C10_RunnerStartedOnceDetached ==
    [][/\ \A j \in Keys(conversions') : runner'[j].starts = 1
       /\ \A j \in JobIds :
            runner'[j].starts # runner[j].starts =>
                /\ j \notin Jobs
                /\ MapGet(conversions', j).status = "pending"
                /\ MapGet(conversions', j).progress = 0
       /\ \A i \in 1..Len(accepted) : i <= Len(accepted') /\ accepted'[i] = accepted[i]
       /\ Len(accepted') > Len(accepted) =>
            LET body == accepted'[Len(accepted')]
            IN  /\ Len(accepted') = Len(accepted) + 1
                /\ MapGet(conversions', body.id) = body
                /\ body.status \notin Terminal
                /\ runner'[body.id].pc = "start"
      ]_vars

C10_Witness ==
    /\ Len(accepted) >= 2
    /\ \E i \in 1..Len(accepted) : Job(accepted[i].id).status = "failed"
    /\ \E i \in 1..Len(accepted) : Job(accepted[i].id).status = "completed"

\* C11: a request the validation rejects - no file part, a mime type outside
\* audio/mpeg, audio/wav, audio/mp4, audio/m4a, a size over 50MB, or an
\* intensity field outside soft, medium, heavy - creates no job and starts no
\* runner: the store is as before the request.
C11_Rejected(form) ==
    \/ ~form.hasFile
    \/ form.mimetype \notin {"audio/mpeg", "audio/wav", "audio/mp4", "audio/m4a"}
    \/ form.size > 50 * 1024 * 1024
    \/ form.intensity \notin {"", "soft", "medium", "heavy"}

C11_RejectedCreatesNothing ==
    [][(requests' # requests /\ C11_Rejected(request')) =>
            /\ conversions' = conversions
            /\ runner' = runner
            /\ accepted' = accepted
      ]_vars

C11_Witness ==
    /\ requests = 2 /\ Len(conversions) = 1
    /\ request.hasFile /\ request.mimetype = "audio/mpeg" /\ request.size <= fileSize
    /\ request.intensity = "loud"

\* C12 (as stated): a request whose file has a mime type outside the allowed
\* set, or a size over the limit, is answered with a 4xx status code.
C12_RefusedIs4xx ==
    (/\ request.hasFile
     /\ \/ request.mimetype \notin {"audio/mpeg", "audio/wav", "audio/mp4", "audio/m4a"}
        \/ request.size > 50 * 1024 * 1024)
        => reply \in 400..499

\* the place of the record with this id in a list
Pos(list, id) == CHOOSE k \in 1..Len(list) : list[k].id = id

(* C13 as stated: in the answer of GET /api/conversions, of two stored jobs
   the one created later comes first, also when both have the same createdAt *)
C13_AsStated ==
    response.kind = "list" =>
        \A i, j \in 1..Len(conversions) :
            i < j => Pos(response.body, conversions[j].id) < Pos(response.body, conversions[i].id)

(* C13, amended: in the answer of GET /api/conversions, of two stored jobs
   the one with the later createdAt comes first; two jobs with the same
   createdAt come in the order they were created, the earlier one first *)
C13_NewestFirstTiesInOrder ==
    response.kind = "list" =>
        \A i, j \in 1..Len(conversions) :
            i < j =>
                /\ conversions[i].createdAt <= conversions[j].createdAt
                /\ conversions[i].createdAt < conversions[j].createdAt =>
                      Pos(response.body, conversions[j].id) < Pos(response.body, conversions[i].id)
                /\ conversions[i].createdAt = conversions[j].createdAt =>
                      Pos(response.body, conversions[i].id) < Pos(response.body, conversions[j].id)

\* a list of two jobs created at different times has been served, the later job first
C13_Witness ==
    /\ response.kind = "list"
    /\ Len(conversions) = 2
    /\ conversions[1].createdAt < conversions[2].createdAt
    /\ response.body[1].id = conversions[2].id

(* C14: the answer of GET /api/conversions holds exactly the stored records,
   each once, in non-increasing createdAt order; serving it leaves the store
   as it is, and a second request right after the first gets the same list *)
C14_ListExactSortedIdempotent ==
    [][response'.kind = "list" =>
          /\ conversions' = conversions
          /\ Len(response'.body) = Len(conversions')
          /\ \A i \in 1..Len(conversions') :
                Cardinality({k \in 1..Len(response'.body) : response'.body[k] = conversions'[i]}) = 1
          /\ \A k \in 1..(Len(response'.body) - 1) :
                response'.body[k].createdAt >= response'.body[k + 1].createdAt
          /\ getAllConversions(conversions') = response'.body
          /\ response.kind = "list" => response'.body = response.body]_vars

\* a list of two jobs with the same createdAt has been served
C14_Witness ==
    /\ response.kind = "list"
    /\ Len(response.body) = 2
    /\ response.body[1].createdAt = response.body[2].createdAt
    /\ response.body[1].id # response.body[2].id

\* partial records given to updateConversion: the runner's three kinds of
\* write and a write of a field the runner never writes
Updates ==
    {[status |-> "processing", progress |-> 50],
     [status |-> "completed", progress |-> 100,
      convertedFilePath |-> OutputPath(1), completedAt |-> MaxTime],
     [status |-> "failed", progress |-> 0],
     [intensity |-> "heavy"]}

(* C15: updateConversion on a stored id sets the fields named in the updates
   and nothing else: the record's other fields and every other record are as
   before, no record is added, and the returned record is the stored one *)
C15_UpdateChangesOnlyNamed ==
    \A id \in Keys(conversions), updates \in Updates :
        LET existing == getConversion(conversions, id)
            after    == updateConversion(conversions, id, updates)
            result   == updateConversionResult(conversions, id, updates)
        IN  /\ DOMAIN result = DOMAIN existing
            /\ \A f \in DOMAIN updates : result[f] = updates[f]
            /\ \A f \in DOMAIN existing \ DOMAIN updates : result[f] = existing[f]
            /\ Len(after) = Len(conversions)
            /\ \A i \in 1..Len(conversions) :
                  after[i] = IF conversions[i].id = id THEN result ELSE conversions[i]

\* the runner has written to the first of two stored jobs and the second is untouched
C15_Witness ==
    /\ Len(conversions) = 2
    /\ conversions[1].status = "processing"
    /\ conversions[1].progress > 0
    /\ conversions[2].status = "pending"
    /\ conversions[2].progress = 0

\* ids no record is stored under
UnknownIds == (JobIds \cup {MaxUploads + 1}) \ Keys(conversions)

(* C16: updateConversion on an id that is not stored returns undefined and
   leaves the store as it is: no record is added and every record is as before *)
C16_UpdateUnknownIsNoOp ==
    \A id \in UnknownIds, updates \in Updates :
        /\ updateConversionResult(conversions, id, updates) = Undefined
        /\ Len(updateConversion(conversions, id, updates)) = Len(conversions)
        /\ updateConversion(conversions, id, updates) = conversions

\* the store holds a job and another id of the id space is not stored
C16_Witness ==
    /\ Len(conversions) = 1
    /\ conversions[1].status = "processing"
    /\ \E id \in JobIds : id \notin Keys(conversions)

\* the fields createConversion sets and nothing writes afterwards
ImmutableFields ==
    {"id", "originalFilename", "originalFilePath", "intensity", "metadata", "createdAt"}

(* C17: a stored record is never removed and its id, originalFilename,
   originalFilePath, intensity, metadata and createdAt never change; a step
   that changes the record (its status, progress, convertedFilePath or
   completedAt) is a step of that job's runner; a step that answers a GET
   request leaves the store as it is *)
C17_OnlyRunnerWritesMutableFields ==
    [][/\ \A id \in Keys(conversions) :
            /\ id \in Keys(conversions')
            /\ LET old == getConversion(conversions, id)
                   new == getConversion(conversions', id)
               IN  /\ DOMAIN new = DOMAIN old
                   /\ \A f \in ImmutableFields : new[f] = old[f]
                   /\ new # old => Runner(id)
       /\ response' # NoResponse => conversions' = conversions]_vars

\* a job has run to completed (all four fields written) and a GET request
\* for it has just been answered
C17_Witness ==
    /\ response.kind = "conversion"
    /\ response.status = 200
    /\ response.body.status = "completed"
    /\ response.body.progress = 100
    /\ response.body.convertedFilePath # Null
    /\ response.body.completedAt # NoDate
    /\ response.body = getConversion(conversions, response.id)

(* C18: a request for GET /api/download/:id of a job whose status is pending
   or processing is answered 404 and serves no file; such a job has no
   convertedFilePath *)
C18_DownloadBeforeCompletionIs404 ==
    /\ \A j \in Jobs :
          Job(j).status \in {"pending", "processing"} => Job(j).convertedFilePath = Null
    /\ (/\ response.kind = "download"
        /\ response.id \in Jobs
        /\ Job(response.id).status \in {"pending", "processing"})
          => /\ response.status = 404
             /\ "body" \notin DOMAIN response

\* the download of a job in processing, whose uploaded file is on disk, has been refused
C18_Witness ==
    /\ response.kind = "download"
    /\ response.id \in Jobs
    /\ Job(response.id).status = "processing"
    /\ existsSync(disk, Job(response.id).originalFilePath)
    /\ response.status = 404

\* the bytes that were uploaded for a job
UploadedBytes(conversion) ==
    Bytes(CHOOSE n \in 1..MaxUploads : UploadPath(n) = conversion.originalFilePath)

(* C19: the output file of a job that completed with its source file copied
   at the last step holds the bytes uploaded for that job, whatever other
   jobs' runners do afterwards, and a file GET /api/download/:id serves for a
   job holds the bytes uploaded for that job *)
C19_DownloadServesUploadedBytes ==
    /\ \A j \in Jobs :
          (Job(j).status = "completed" /\ runner[j].copy = "copied")
            => /\ Job(j).convertedFilePath = OutputPath(j)
               /\ existsSync(disk, Job(j).convertedFilePath)
                    => disk[Job(j).convertedFilePath] = UploadedBytes(Job(j))
    /\ (response.kind = "download" /\ response.status = 200)
          => response.body = UploadedBytes(Job(response.id))

\* two jobs completed with their files copied, and the first job's download
\* has been served after the second job's copy
C19_Witness ==
    /\ Len(conversions) = 2
    /\ \A j \in Jobs : Job(j).status = "completed" /\ runner[j].copy = "copied"
    /\ response.kind = "download"
    /\ response.status = 200
    /\ response.id = 1
    /\ response.body = Bytes(1)

\* the page's copy of job id has a terminal status
LocalTerminal(id) ==
    /\ currentConversion # Undefined
    /\ currentConversion.id = id
    /\ currentConversion.status \in Terminal

(* C20: a step in which the page sends a poll request for a job is taken
   while the page tracks that job and its copy of it has status pending or
   processing; and from the moment the page's copy of a job has status
   completed or failed, no poll request for that job is in flight ever again *)
C20_PollsOnlyWhileActive ==
    /\ [][\A id \in JobIds :
            (id \notin fetching /\ id \in fetching') =>
                /\ currentConversion # Undefined
                /\ currentConversion.id = id
                /\ currentConversion.status \in {"pending", "processing"}]_vars
    /\ \A id \in JobIds : [](LocalTerminal(id) => [](id \notin fetching))

\* the page has polled its job to completed: its copy is the data of the
\* last poll and no poll is in flight
C20_Witness ==
    /\ LocalTerminal(1)
    /\ currentConversion.status = "completed"
    /\ queryData[1] = currentConversion
    /\ currentConversion = Job(1)
    /\ fetching = {}

\* the records a query can deliver in this state: the data of the queries
\* and the records of the store
Fetchable ==
    {queryData[id] : id \in JobIds} \cup {conversions[i] : i \in 1..Len(conversions)}

\* the page's copy and a record have the same status and the same progress
SameStatusAndProgress(conversion, status) ==
    status.status = conversion.status /\ status.progress = conversion.progress

(* C21: when the answer of a poll arrives, the page's copy is replaced by the
   fetched record if that record has the tracked id and differs in status or
   progress, and is left as it is otherwise; for every record a query can
   deliver, the render-time update leaves the copy alone when the record has
   another id or the same status and progress, and applied a second time it
   changes nothing *)
C21_ReplacedOnlyOnChange ==
    [][/\ \A id \in JobIds :
            (id \in fetching /\ id \notin fetching') =>
                LET fetched == queryData'[id]
                IN  IF /\ fetched # Undefined
                       /\ currentConversion # Undefined
                       /\ fetched.id = currentConversion.id
                       /\ ~SameStatusAndProgress(currentConversion, fetched)
                    THEN currentConversion' = fetched
                    ELSE currentConversion' = currentConversion
       /\ \A status \in Fetchable \ {Undefined} :
            currentConversion # Undefined =>
                LET new == Render(currentConversion, status)
                IN  /\ status.id # currentConversion.id => new = currentConversion
                    /\ SameStatusAndProgress(currentConversion, status) => new = currentConversion
                    /\ new # currentConversion =>
                          /\ new = status
                          /\ status.id = currentConversion.id
                          /\ ~SameStatusAndProgress(currentConversion, status)
                    /\ Render(new, status) = new]_vars

\* the page tracks the second job, its copy is the record of the last poll,
\* and the store holds another job with another status
C21_Witness ==
    /\ Len(conversions) = 2
    /\ currentConversion # Undefined
    /\ currentConversion.id = 2
    /\ currentConversion.status = "processing"
    /\ queryData[2] = currentConversion
    /\ Job(1).status = "completed"

\* the page tracks job id
Tracked(id) == currentConversion # Undefined /\ currentConversion.id = id

(* C22: a poll request is sent only for the job the page tracks; from the
   moment the page stops tracking a job (no job, or another job) it never
   tracks it again and no poll request for it is in flight; and the answer to
   a poll of a job the page does not track, arriving in any state, leaves the
   page's copy as it is *)
C22_NoPollForFormerJob ==
    /\ [][\A id \in JobIds :
            /\ (id \notin fetching /\ id \in fetching') => Tracked(id) /\ Tracked(id)'
            /\ (id \in Jobs /\ ~Tracked(id)) =>
                  /\ Render(currentConversion,
                            conversionStatus([queryData EXCEPT ![id] = Job(id)],
                                             currentConversion)) = currentConversion
                  /\ (id \in fetching /\ id \notin fetching') =>
                        currentConversion' = currentConversion]_vars
    /\ \A id \in JobIds :
          [](Tracked(id) => [](~Tracked(id) => [](~Tracked(id) /\ id \notin fetching)))

\* the page tracked the first job to its end and now tracks the second job,
\* with a poll for it in flight
C22_Witness ==
    /\ queryData[1] # Undefined
    /\ queryData[1].status \in Terminal
    /\ Tracked(2)
    /\ currentConversion.status = "processing"
    /\ fetching = {2}

\* the page's copy of job id is the server's record, which is terminal, and
\* no poll is in flight or due
PolledToEnd(id) ==
    /\ LocalTerminal(id)
    /\ currentConversion = Job(id)
    /\ runner[id].pc = "done"
    /\ ~runner[id].thrown =>
          currentConversion.status = "completed" /\ currentConversion.progress = 100
    /\ fetching = {}
    /\ ~enabled(currentConversion)

(* C23: once the page tracks a job, its copy of the job eventually is the
   server's terminal record (completed with progress 100 if no exception
   reached the catch block) with no poll in flight and the query disabled,
   provided timers fire and fetches are answered *)
C23_CopyEventuallyTerminal ==
    \A id \in JobIds : Tracked(id) ~> PolledToEnd(id)

\* the page has polled a job that ran without exception to completed
C23_Witness ==
    /\ PolledToEnd(1)
    /\ ~runner[1].thrown
    /\ queryData[1] = Job(1)

\* the processAudioFile call of id found no record in the Map
RunsWithoutRecord(id) == runner[id].pc # "idle" /\ runner[id].conversion = Undefined

C25_WritesInStepOrder ==
    [][\A j \in Jobs :
          LET k == runner[j].step
          IN  /\ runner[j].pc = "sleep" =>
                    /\ k \in 1..totalSteps
                    /\ Job(j).progress = 10 * (k - 1)
                    /\ Job(j).status = IF k = 1 THEN "pending" ELSE "processing"
              /\ (Runner(j) /\ ~runner'[j].thrown) =>
                    LET new == getConversion(conversions', j)
                    IN  /\ runner[j].pc = "start" =>
                              /\ new = Job(j)
                              /\ runner'[j].pc = "sleep" /\ runner'[j].step = 1
                        /\ (runner[j].pc = "sleep" /\ k < totalSteps) =>
                              /\ new = [Job(j) EXCEPT !.status = "processing",
                                                       !.progress = 10 * k]
                              /\ runner'[j].pc = "sleep" /\ runner'[j].step = k + 1
                        /\ (runner[j].pc = "sleep" /\ k = totalSteps) =>
                              /\ new.status = "completed" /\ new.progress = 100
                              /\ runner'[j].pc = "done"
              /\ getConversion(conversions', j) # Job(j) => Runner(j)]_vars

\* the first job has made its ten writes and the second is waiting for the
\* timer of its last step
C25_Witness ==
    /\ Len(conversions) = 2
    /\ runner[1].pc = "done" /\ ~runner[1].thrown
    /\ Job(1).status = "completed" /\ Job(1).progress = 100
    /\ runner[2].pc = "sleep" /\ runner[2].step = totalSteps
    /\ Job(2).status = "processing" /\ Job(2).progress = 90

\* the record a job has at this point of its run when it runs alone: the
\* record its run started from, with the writes of the steps made so far
RecordAlone(j) ==
    LET first == runner[j].conversion
        k == runner[j].step
    IN  CASE runner[j].pc = "start" -> first
          [] runner[j].pc = "sleep" ->
                [first EXCEPT !.status = IF k = 1 THEN "pending" ELSE "processing",
                              !.progress = 10 * (k - 1)]
          [] runner[j].pc = "done" /\ runner[j].thrown ->
                [first EXCEPT !.status = "failed", !.progress = 0]
          [] OTHER ->
                [first EXCEPT !.status = "completed", !.progress = 100,
                              !.convertedFilePath = OutputPath(j),
                              !.completedAt = Job(j).completedAt]

(* C26: under every interleaving of uploads, GET requests, runner steps and
   file removals, a step of job j's runner leaves every other job's record as
   it is and writes no file but the output file of j; every job's record is
   at each moment the one its own run has reached, whatever the other jobs
   did; and an output file that exists holds the bytes uploaded for its job *)
C26_RunnersDoNotInterfere ==
    [][/\ \A j \in Jobs :
            /\ Job(j) = RecordAlone(j)
            /\ existsSync(disk, OutputPath(j)) => disk[OutputPath(j)] = UploadedBytes(Job(j))
            /\ Runner(j) =>
                  /\ \A i \in Jobs \ {j} : getConversion(conversions', i) = Job(i)
                  /\ Keys(conversions') = Jobs
                  /\ \A p \in DOMAIN disk : p \in DOMAIN disk' /\ (p # OutputPath(j) => disk'[p] = disk[p])
                  /\ DOMAIN disk' \subseteq DOMAIN disk \cup {OutputPath(j)}
                  /\ \A i \in JobIds \ {j} : runner'[i] = runner[i]]_vars

\* two jobs are in the middle of their runs, at different steps, and a GET
\* request has just been answered
C26_Witness ==
    /\ Len(conversions) = 2
    /\ runner[1].pc = "sleep" /\ runner[1].step = 5
    /\ runner[2].pc = "sleep" /\ runner[2].step = 3
    /\ Job(1).progress = 40 /\ Job(2).progress = 20
    /\ response.kind = "list"

(* C27: in every reachable store, a pending job has progress 0 and no
   completedAt, a processing job has one of the progress values 10, 20, ...,
   90, a completed job has progress 100 and a completedAt, and a failed job
   has progress 0 *)
C27_StatusProgressCoupled ==
    \A j \in Jobs :
        /\ Job(j).status \in {"pending", "processing", "completed", "failed"}
        /\ Job(j).status = "pending" =>
              Job(j).progress = 0 /\ Job(j).completedAt = NoDate
        /\ Job(j).status = "processing" =>
              Job(j).progress \in {10 * k : k \in 1..9}
        /\ Job(j).status = "completed" =>
              Job(j).progress = 100 /\ Job(j).completedAt # NoDate
        /\ Job(j).status = "failed" => Job(j).progress = 0

\* one job has failed after some progress had been written and the other is completed
C27_Witness ==
    /\ Len(conversions) = 2
    /\ Job(1).status = "failed" /\ Job(1).progress = 0
    /\ runner[1].thrown
    /\ Job(2).status = "completed" /\ Job(2).progress = 100
    /\ Job(2).completedAt >= Job(2).createdAt

\* the page's copy of its tracked job has status pending or processing
LocalActive ==
    currentConversion # Undefined /\ currentConversion.status \in {"pending", "processing"}

\* the jobs of the store that are not over
Unfinished == {j \in Jobs : Job(j).status \in {"pending", "processing"}}

(* C28: while the page's upload is pending or its copy of the tracked job is
   pending or processing, no step selects or clears a file and no step starts
   an upload; while the copy is pending or processing the page keeps tracking
   that job and has no upload pending; and of the jobs the page has created
   at most one is not over, and that one is the tracked job *)
C28_ControlsDisabledWhileConverting ==
    [][/\ (uploadMutation.isPending \/ LocalActive) =>
            /\ selectedFile' = selectedFile
            /\ uploadMutation'.isPending => uploadMutation' = uploadMutation
       /\ LocalActive =>
            /\ ~uploadMutation.isPending
            /\ currentConversion' # Undefined
            /\ currentConversion'.id = currentConversion.id
       /\ Cardinality(Unfinished) <= 1
       /\ \A j \in Unfinished : Tracked(j) /\ ~uploadMutation.isPending]_vars

\* the first job is over, and the page tracks the second job it has just
\* been answered, with the file still selected
C28_Witness ==
    /\ Len(conversions) = 2
    /\ Job(1).status \in Terminal
    /\ Tracked(2)
    /\ currentConversion.status = "pending"
    /\ selectedFile # NoFile
    /\ ~uploadMutation.isPending
    /\ Unfinished = {2}
====
